---- MODULE Spec2Model ----
(***************************************************************************)
(* A model of the photometric analysis pipeline of anabu: the calibration  *)
(* inversion of the brightness evaluator (density.py), its brightness      *)
(* histogram, the pinhole detector (pinholes.py), the masking, rotation    *)
(* and cropping steps of the photo preparation (photo.py), the exposure    *)
(* checks of the two analyses, the batch loop of run_button (analysis.py), *)
(* the orientation of the patch, the final binarization of automask, the   *)
(* distribution parameters and the circles of calculate_OD.  Each          *)
(* component has its own specification; the variables of the others stay   *)
(* idle in it.                                                             *)
(*                                                                         *)
(* Units.  Measured brightness values are integers on an arbitrary grid    *)
(* (the interpolation only uses ratios of differences).  Optical densities *)
(* are integers counting thousandths, so round(x, 3) is rounding to the    *)
(* nearest integer.  Python lists are 0-based, sequences here 1-based; the *)
(* adjacency test index_above == index_below - 1 is the same in both.      *)
(***************************************************************************)
EXTENDS Integers, Sequences, FiniteSets, TLC

VARIABLES
    calibration_density,   \* Evaluator.calibration_density["parameters"]
    weighted_mean,         \* argument of the last convert_OD call
    od_outcome,            \* how the last convert_OD call ended
    optical_density,       \* value returned by the last convert_OD call
    index_above,           \* local of convert_OD (0: not computed)
    index_below,           \* local of convert_OD (0: not computed)
    grey_photo,            \* Evaluator.grey_photo, one brightness per pixel
    cropped_mask,          \* Evaluator.cropped_mask, TRUE: nonzero (included)
    number_total_pixels,   \* Evaluator.number_total_pixels
    brightness_counts,     \* Evaluator.brightness_counts, indexed by brightness
    brightness_cumulative, \* Evaluator.brightness_cumulative
    hist_outcome,          \* how create_brightness_arrays ended
    PINHOLE_CLASS_STEPS,   \* pinholes.PINHOLE_CLASS_STEPS as configured
    gray_photo,            \* 8-bit grayscale of Pinholer.cropped_photo
    pinholer_mask,         \* Pinholer.cropped_mask: the set of nonzero pixels
    binarized_photo,       \* Pinholer.binarized_photo: the set of True pixels
    holes,                 \* Pinholer.holes: the set of True pixels
    labels_holes,          \* Pinholer.labels_holes: label of every pixel
    no_pinholes,           \* Pinholer.no_pinholes
    steps,                 \* Pinholer.steps
    details,               \* Pinholer.details
    pin_pc,                \* position of run_pinholes
    photo_mask,            \* Photo.mask: the set of nonzero pixels (0-based)
    autocrop_margin,       \* user_settings.autocrop_margin["value"]
    crop_edges,            \* edges = get_crop_edges(self.mask)
    height_patch,          \* Photo.height_patch
    width_patch,           \* Photo.width_patch
    kept_rows,             \* rows of the photo that the crop keeps
    kept_cols,             \* columns of the photo that the crop keeps
    photo_cropped_mask,    \* Photo.cropped_mask: its nonzero pixels, in the
                           \* coordinates of the uncropped photo
    crop_outcome,          \* how autocrop ended
    file_list,             \* user_settings.file_list["value"]
    file_index,            \* number of files the loop of run_button has taken
    attribute_list,        \* interface.results.attribute_list
    result_values,         \* the attributes of interface.results, by name
    exported,              \* the results files written by end_analysis
    batch_log,             \* what run_button and end_analysis logged
    pbar,                  \* window["-PBAR-"]: "running" or "finished"
    batch_pc,              \* position of run_button
    results_ExposureTime,  \* interface.results.ExposureTime["value"]
    use_pinholes,          \* user_settings.pinholes["value"]
    analyze_brightness,    \* user_settings.analyze_brightness["value"]
    evaluated_od,          \* Evaluator.optical_density
    calib_recorded,        \* names added to interface.results, in order
    computed,              \* what the detector and the evaluator computed
    defect_records,        \* number of rows of Pinholer.details
    calib_outcome,         \* how the try block of run_button ended
    calib_pc,              \* position in the try block of run_button
    photo_gray,            \* 8-bit grayscale of Photo.photo, by pixel
    photo_shape,           \* Photo.photo.shape: <<height, width>>
    mask_file_shape,       \* shape of the image in the mask file
    mask_file_nonzero,     \* number of nonzero pixels of the mask file
    setting_automask,      \* user_settings.automask["value"]
    automask_grow,         \* user_settings.automask_grow["value"], hundredths
    binarize_threshold,    \* user_settings.binarize_threshold["value"]
    setting_flip,          \* user_settings.flip["value"]
    setting_autorotate,    \* user_settings.autorotate["value"]
    thresh_value,          \* Photo.thresh_value
    prep_binarized,        \* binarized_photo of automask: its True pixels
    mask_shape,            \* Photo.mask.shape, <<>> while there is no mask
    unmasked_pixels,       \* Photo.unmasked_pixels
    orientation,           \* Photo.orientation, in degrees
    photo_angles,          \* angles of the rotations applied to Photo.photo
    mask_angles,           \* angles of the rotations applied to Photo.mask
    prep_outcome,          \* how run_photo ended, or "running"
    prep_pc,               \* position of run_photo
    orient_mask,           \* Photo.mask of get_orientation: its nonzero pixels
    patch_label,           \* patch_label of get_orientation, by pixel
    measured_region,       \* pixels of regionprops(patch_label)[0]
    orient_moments,        \* second central moments behind Photo.orientation
    orient_outcome,        \* how get_orientation ended
    stat_results,          \* the add_result calls of
                           \* calculate_distribution_params, in order
    stat_outcome,          \* how calculate_distribution_params ended
    setting_autocrop,      \* user_settings.autocrop["value"]
    evaluator_rows,        \* rows of the photo in Evaluator.cropped_photo
    evaluator_cols,        \* columns of the photo in Evaluator.cropped_photo
    evaluator_mask,        \* Evaluator.cropped_mask: its nonzero pixels
    evaluator_pc,          \* "none" until Evaluator.__init__ has run
    hull3,                 \* hull3 of automask: the blurred hull, hundredths
    grow_values,           \* the values of grow automask is run with
    grow_masks,            \* Photo.mask of each run: its True pixels
    grow_pc,               \* number of runs of the final binarization
    circle_grey,           \* grey of calculate_OD, one brightness per pixel
    disk_radius,           \* disk_radius of calculate_OD
    ind_min,               \* Evaluator.ind_min, centre of the brightest circle
    ind_max,               \* Evaluator.ind_max, centre of the darkest circle
    brightness_counts_min, \* local of calculate_OD
    brightness_counts_max, \* local of calculate_OD
    circle_outcome         \* how calculate_OD ended

odVars == <<calibration_density, weighted_mean, od_outcome, optical_density,
            index_above, index_below>>

histVars == <<grey_photo, cropped_mask, number_total_pixels, brightness_counts,
              brightness_cumulative, hist_outcome>>

pinVars == <<PINHOLE_CLASS_STEPS, gray_photo, pinholer_mask, binarized_photo,
             holes, labels_holes, no_pinholes, steps, details, pin_pc>>

cropVars == <<photo_mask, autocrop_margin, crop_edges, height_patch, width_patch,
              kept_rows, kept_cols, photo_cropped_mask, crop_outcome>>

batchVars == <<file_list, file_index, attribute_list, result_values, exported,
               batch_log, pbar, batch_pc>>

calibVars == <<results_ExposureTime, use_pinholes, analyze_brightness,
               evaluated_od, calib_recorded, computed, defect_records,
               calib_outcome, calib_pc>>

prepVars == <<photo_gray, photo_shape, mask_file_shape, mask_file_nonzero,
              setting_automask, automask_grow, binarize_threshold, setting_flip,
              setting_autorotate, thresh_value, prep_binarized, mask_shape,
              unmasked_pixels, orientation, photo_angles, mask_angles,
              prep_outcome, prep_pc>>

orientVars == <<orient_mask, patch_label, measured_region, orient_moments,
                orient_outcome>>

(* The components added last. *)
statVars == <<stat_results, stat_outcome>>

evalVars == <<setting_autocrop, evaluator_rows, evaluator_cols, evaluator_mask,
              evaluator_pc>>

growVars == <<hull3, grow_values, grow_masks, grow_pc>>

circleVars == <<circle_grey, disk_radius, ind_min, ind_max,
                brightness_counts_min, brightness_counts_max, circle_outcome>>

addVars == <<orientVars, statVars, evalVars, growVars, circleVars>>

(* The components added to the first four. *)
extVars == <<batchVars, calibVars, prepVars, addVars>>

coreVars == <<odVars, histVars, pinVars, cropVars>>

notBatchVars == <<coreVars, calibVars, prepVars, addVars>>

notCalibVars == <<coreVars, batchVars, prepVars, addVars>>

notPrepVars == <<coreVars, batchVars, calibVars, addVars>>

vars == <<odVars, histVars, pinVars, cropVars, extVars>>

(* The value of optical_density where the code has None or no value. *)
NoValue == 0 - 1

(* The state of each component before it is used. *)
IdleOD ==
    /\ calibration_density = <<>>
    /\ weighted_mean = 0
    /\ od_outcome = "not_called"
    /\ optical_density = NoValue
    /\ index_above = 0
    /\ index_below = 0

IdleHist ==
    /\ grey_photo = <<>>
    /\ cropped_mask = <<>>
    /\ number_total_pixels = 0
    /\ brightness_counts = <<>>
    /\ brightness_cumulative = <<>>
    /\ hist_outcome = "not_called"

IdlePin ==
    /\ PINHOLE_CLASS_STEPS = <<>>
    /\ gray_photo = <<>>
    /\ pinholer_mask = {}
    /\ binarized_photo = {}
    /\ holes = {}
    /\ labels_holes = <<>>
    /\ no_pinholes = 0
    /\ steps = <<>>
    /\ details = <<>>
    /\ pin_pc = "idle"

IdleCrop ==
    /\ photo_mask = {}
    /\ autocrop_margin = 0
    /\ crop_edges = <<>>
    /\ height_patch = 0
    /\ width_patch = 0
    /\ kept_rows = {}
    /\ kept_cols = {}
    /\ photo_cropped_mask = {}
    /\ crop_outcome = "idle"

IdleBatch ==
    /\ file_list = <<>>
    /\ file_index = 0
    /\ attribute_list = <<>>
    /\ result_values = <<>>
    /\ exported = <<>>
    /\ batch_log = <<>>
    /\ pbar = "idle"
    /\ batch_pc = "idle"

IdleCalib ==
    /\ results_ExposureTime = 0
    /\ use_pinholes = FALSE
    /\ analyze_brightness = FALSE
    /\ evaluated_od = NoValue
    /\ calib_recorded = <<>>
    /\ computed = {}
    /\ defect_records = 0
    /\ calib_outcome = "idle"
    /\ calib_pc = "idle"

IdlePrep ==
    /\ photo_gray = <<>>
    /\ photo_shape = <<>>
    /\ mask_file_shape = <<>>
    /\ mask_file_nonzero = 0
    /\ setting_automask = FALSE
    /\ automask_grow = 0
    /\ binarize_threshold = 0
    /\ setting_flip = FALSE
    /\ setting_autorotate = FALSE
    /\ thresh_value = NoValue
    /\ prep_binarized = {}
    /\ mask_shape = <<>>
    /\ unmasked_pixels = 0
    /\ orientation = 0
    /\ photo_angles = <<>>
    /\ mask_angles = <<>>
    /\ prep_outcome = "idle"
    /\ prep_pc = "idle"

IdleOrient ==
    /\ orient_mask = {}
    /\ patch_label = <<>>
    /\ measured_region = {}
    /\ orient_moments = <<>>
    /\ orient_outcome = "idle"

IdleStat ==
    /\ stat_results = <<>>
    /\ stat_outcome = "not_called"

IdleEval ==
    /\ setting_autocrop = FALSE
    /\ evaluator_rows = {}
    /\ evaluator_cols = {}
    /\ evaluator_mask = {}
    /\ evaluator_pc = "none"

IdleGrow ==
    /\ hull3 = <<>>
    /\ grow_values = <<>>
    /\ grow_masks = <<>>
    /\ grow_pc = 0

IdleCircle ==
    /\ circle_grey = <<>>
    /\ disk_radius = 0
    /\ ind_min = 0
    /\ ind_max = 0
    /\ brightness_counts_min = <<>>
    /\ brightness_counts_max = <<>>
    /\ circle_outcome = "not_called"

IdleAdd ==
    /\ IdleOrient
    /\ IdleStat
    /\ IdleEval
    /\ IdleGrow
    /\ IdleCircle

IdleExt ==
    /\ IdleBatch
    /\ IdleCalib
    /\ IdlePrep
    /\ IdleAdd

(* The components other than those added last. *)
IdleOld ==
    /\ IdleOD
    /\ IdleHist
    /\ IdlePin
    /\ IdleCrop
    /\ IdleBatch
    /\ IdleCalib
    /\ IdlePrep

oldVars == <<odVars, histVars, pinVars, cropVars, batchVars, calibVars, prepVars>>

IdleCore ==
    /\ IdleOD
    /\ IdleHist
    /\ IdlePin
    /\ IdleCrop

----------------------------------------------------------------------------
(* Bounds of the calibration-inversion model. *)
MaxTableLen == 3
MaxMeasured == 3
MaxPhysical == 2

MeasuredValues == 0..MaxMeasured
PhysicalValues == 0..MaxPhysical
CalibrationPoints == MeasuredValues \X PhysicalValues

(* The tables of n points, as sequences. *)
CalibrationTables(n) == [1..n -> CalibrationPoints]

Measured(table, i) == table[i][1]
Physical(table, i) == table[i][2]

(* min(range(n), key=...): the first index whose key is minimal. *)
ArgMinFirst(keys) ==
    CHOOSE i \in DOMAIN keys :
        /\ \A j \in DOMAIN keys : keys[i] <= keys[j]
        /\ \A j \in 1..(i - 1) : keys[j] > keys[i]

(* round(num/den, 3) in thousandths, den > 0, num >= 0.  The float that    *)
(* stands for an exact decimal tie lies slightly above or below it, so a   *)
(* tie can round either way.                                               *)
Round3(num, den) ==
    LET q == num \div den
        r == num % den
    IN  IF 2 * r < den THEN {q}
        ELSE IF 2 * r > den THEN {q + 1}
        ELSE {q, q + 1}

Returned(value, ia, ib) ==
    [outcome |-> "value", value |-> value, index_above |-> ia, index_below |-> ib]
ReturnedNone ==
    [outcome |-> "None", value |-> NoValue, index_above |-> 0, index_below |-> 0]
Raised(ia, ib) ==
    [outcome |-> "AssertionError", value |-> NoValue,
     index_above |-> ia, index_below |-> ib]

(* convert_OD, lines 372-381: the two range checks against the first and  *)
(* the last table point.                                                   *)
OutOfRange_OnlyAbove(table, v) ==
    v > Measured(table, 1)

OutOfRange_Inclusive(table, v) ==
    \/ v >= Measured(table, 1)
    \/ v <= Measured(table, Len(table))

OutOfRange(table, v) ==
    \/ v > Measured(table, 1)
    \/ v < Measured(table, Len(table))

(* convert_OD, lines 382-385: the loop returns at the first index whose    *)
(* measured value equals v; 0 when the loop finds none.                    *)
ExactMatch(table, v) ==
    LET exact == {i \in 1..Len(table) : Measured(table, i) = v}
    IN  IF exact = {} THEN 0
        ELSE CHOOSE i \in exact : \A j \in exact : i <= j

(* convert_OD, lines 386-391 and 392-397. *)
IndexAbove_ZeroKey(table, v) ==
    ArgMinFirst([x \in 1..Len(table) |->
                    IF Measured(table, x) - v > 0
                    THEN Measured(table, x) - v ELSE 0])

IndexAbove(table, v) ==
    ArgMinFirst([x \in 1..Len(table) |->
                    IF Measured(table, x) - v > 0
                    THEN Measured(table, x) - v ELSE 256])

IndexBelow(table, v) ==
    ArgMinFirst([x \in 1..Len(table) |->
                    IF v - Measured(table, x) > 0
                    THEN v - Measured(table, x) ELSE 256])

(* convert_OD, line 398: the condition of the assert. *)
Adjacent_Unchecked(ia, ib) == TRUE

Adjacent(ia, ib) == ia = ib - 1

(* convert_OD, lines 399-408: p_above - (m_above - v) / (m_above - m_below) *)
(* * (p_above - p_below), rounded to 3 decimals.                           *)
Interpolate_FromBelow(table, v, ia, ib) ==
    LET den == Measured(table, ia) - Measured(table, ib)
        num == Physical(table, ib) * den
               + (Measured(table, ia) - v)
                 * (IF Physical(table, ib) > Physical(table, ia)
                    THEN Physical(table, ib) - Physical(table, ia)
                    ELSE Physical(table, ia) - Physical(table, ib))
    IN  Round3(num, den)

Interpolate(table, v, ia, ib) ==
    LET den == Measured(table, ia) - Measured(table, ib)
        num == Physical(table, ia) * den
               - (Measured(table, ia) - v)
                 * (Physical(table, ia) - Physical(table, ib))
    IN  Round3(num, den)

(* Evaluator.convert_OD: the set of ways the call can end. *)
convert_OD(table, v) ==
    LET m  == ExactMatch(table, v)
        ia == IndexAbove(table, v)
        ib == IndexBelow(table, v)
    IN  IF OutOfRange(table, v) THEN {ReturnedNone}
        ELSE IF m # 0 THEN {Returned(Physical(table, m), 0, 0)}
        ELSE IF ~Adjacent(ia, ib) THEN {Raised(ia, ib)}
        ELSE {Returned(r, ia, ib) : r \in Interpolate(table, v, ia, ib)}

----------------------------------------------------------------------------
(* The brightness histogram of the evaluator.  The photo is a flat list of *)
(* pixels; brightness runs over 0..MaxBrightness (0..255 in the program).  *)
HistPixels == 4
MaxBrightness == 2

Pixels == 1..HistPixels
brightness_array == 0..MaxBrightness

(* np.count_nonzero(cond * mask): the pixels whose brightness is one of    *)
(* values (the brightnesses that satisfy cond) and whose mask is nonzero.  *)
CountMasked(grey, mask, values) ==
    Cardinality({px \in DOMAIN grey : grey[px] \in values /\ mask[px]})

RECURSIVE SumUpTo(_, _)
SumUpTo(f, i) == IF i < 0 THEN 0 ELSE f[i] + SumUpTo(f, i - 1)

(* np.sum over an array indexed 0..MaxBrightness *)
ArraySum(f) == SumUpTo(f, MaxBrightness)

(* lines 121-123: no brightness of an 8-bit photo is nan *)
NumberTotalPixels(grey, mask) ==
    CountMasked(grey, mask, brightness_array)

(* lines 133-138: grey_photo == i *)
BrightnessCounts(grey, mask) ==
    [i \in brightness_array |-> CountMasked(grey, mask, {i})]

(* lines 143-148: grey_photo < i + 1 *)
BrightnessCumulative_Exclusive(grey, mask) ==
    [i \in brightness_array |->
        CountMasked(grey, mask, {g \in brightness_array : g < i})]

BrightnessCumulative(grey, mask) ==
    [i \in brightness_array |->
        CountMasked(grey, mask, {g \in brightness_array : g < i + 1})]

(* Evaluator.create_brightness_arrays with its assertions.  With no masked *)
(* pixel the fractions are 0/0 = nan and the assert on their sum (line     *)
(* 142) fails, before the cumulative counts are computed.                  *)
create_brightness_arrays ==
    LET n      == NumberTotalPixels(grey_photo, cropped_mask)
        counts == BrightnessCounts(grey_photo, cropped_mask)
        cumul  == BrightnessCumulative(grey_photo, cropped_mask)
    IN  /\ hist_outcome = "not_called"
        /\ number_total_pixels' = n
        /\ brightness_counts' = counts
        /\ IF ArraySum(counts) # n \/ n = 0
           THEN /\ hist_outcome' = "AssertionError"
                /\ UNCHANGED brightness_cumulative
           ELSE /\ brightness_cumulative' = cumul
                /\ hist_outcome' = IF cumul[MaxBrightness] = n
                                   THEN "done" ELSE "AssertionError"
        /\ UNCHANGED <<grey_photo, cropped_mask, odVars, pinVars, cropVars, extVars>>

(* Evaluator.calculate_distribution_params.  A statistic is a fraction     *)
(* <<numerator, denominator>> with a positive denominator; <<0, 0>> is     *)
(* nan, the value of 0.0 / 0.0 in numpy.  The statistics whose value is    *)
(* irrational (stdev, skew, kurtosis, the 1.4 mean) or is not read again   *)
(* are recorded with their names only.                                     *)
Float == "float"
Nan == <<0, 0>>
Whole(v) == <<v, 1>>
RatGeq(a, b) == a[1] * b[2] >= b[1] * a[2]
RatEq(a, b) == a[1] * b[2] = b[1] * a[2]

(* lines 361-362: the thresholds of the loop, in hundredths of a percent,  *)
(* with str(threshold) as f"brightness_{threshold}" prints it.             *)
Thresholds ==
    << [percent |-> 9900, name |-> "brightness_99"],
       [percent |-> 9500, name |-> "brightness_95"],
       [percent |-> 9000, name |-> "brightness_90"],
       [percent |-> 7500, name |-> "brightness_75"],
       [percent |-> 5000, name |-> "brightness_50"],
       [percent |-> 2500, name |-> "brightness_25"],
       [percent |-> 1000, name |-> "brightness_10"],
       [percent |-> 200,  name |-> "brightness_2"],
       [percent |-> 100,  name |-> "brightness_1"],
       [percent |-> 50,   name |-> "brightness_0.5"],
       [percent |-> 25,   name |-> "brightness_0.25"],
       [percent |-> 10,   name |-> "brightness_0.1"] >>

(* sum over x of array[x] * x**k; the arrays of mean_2 and mean_3 are the  *)
(* fractions counts / number_total_pixels, whose common divisor cancels in *)
(* the quotients.                                                          *)
MomentSum(counts, k) ==
    ArraySum([i \in brightness_array |-> counts[i] * (i ^ k)])

(* mean_2, lines 197-206 *)
mean_2_Inverted(counts) ==
    IF MomentSum(counts, 1) = 0 THEN Nan
    ELSE <<MomentSum(counts, 1), MomentSum(counts, 2)>>

mean_2(counts) ==
    IF MomentSum(counts, 1) = 0 THEN Nan
    ELSE <<MomentSum(counts, 2), MomentSum(counts, 1)>>

(* mean_3, lines 208-217 *)
mean_3(counts) ==
    IF MomentSum(counts, 2) = 0 THEN Nan
    ELSE <<MomentSum(counts, 3), MomentSum(counts, 2)>>

(* np.mean(self.grey_photo[self.cropped_mask]) *)
Mean(counts, n) == <<MomentSum(counts, 1), n>>

(* np.var(self.grey_photo[self.cropped_mask]) *)
Variance(counts, n) ==
    <<n * MomentSum(counts, 2) - MomentSum(counts, 1) * MomentSum(counts, 1),
      n * n>>

(* brightness_weighted_mean / brightness_mean *)
Dispersity(weighted, mean) ==
    IF weighted = Nan \/ mean[1] = 0 THEN Nan
    ELSE <<weighted[1] * mean[2], weighted[2] * mean[1]>>

(* The j-th smallest masked brightness, j counted from 0. *)
SortedValue(cumulative, j) ==
    CHOOSE i \in brightness_array :
        /\ cumulative[i] > j
        /\ \A g \in brightness_array : g < i => ~(cumulative[g] > j)

(* np.percentile(values, q) and np.median (q = 50): linear interpolation   *)
(* between the two values around position (n - 1) * q / 100.               *)
Percentile(cumulative, n, q) ==
    LET k     == ((n - 1) * q) \div 100
        r     == ((n - 1) * q) % 100
        lower == SortedValue(cumulative, k)
        upper == IF r = 0 THEN lower ELSE SortedValue(cumulative, k + 1)
    IN  <<100 * lower + r * (upper - lower), 100>>

(* np.where(self.brightness_counts == np.amax(self.brightness_counts))[0] *)
PeakIndices(counts) ==
    {i \in brightness_array : \A g \in brightness_array : counts[g] <= counts[i]}

(* np.where(self.cumulative_percentage >= threshold)[0][0] *)
ThresholdBrightness(cumulative, n, percent) ==
    CHOOSE i \in brightness_array :
        /\ cumulative[i] * 10000 >= percent * n
        /\ \A g \in brightness_array :
               g < i => ~(cumulative[g] * 10000 >= percent * n)

(* interface.results.add_result on the list of the calls made so far *)
AddResult(results, variable, value) ==
    Append(results, [variable |-> variable, value |-> value])

(* lines 219-236 *)
ResultsBeforePeak(counts) ==
    LET lowest  == CHOOSE i \in brightness_array :
                       counts[i] > 0 /\ \A g \in brightness_array : g < i => counts[g] = 0
        highest == CHOOSE i \in brightness_array :
                       counts[i] > 0 /\ \A g \in brightness_array : g > i => counts[g] = 0
    IN  << [variable |-> "brightness_min", value |-> Whole(lowest)],
           [variable |-> "brightness_max", value |-> Whole(highest)] >>

(* lines 237-360 *)
ResultsAfterPeak(counts, cumulative, n) ==
    LET peak == CHOOSE i \in PeakIndices(counts) : TRUE
    IN  << [variable |-> "brightness_peak", value |-> Whole(peak)],
           [variable |-> "brightness_mean", value |-> Mean(counts, n)],
           [variable |-> "brightness_25", value |-> Percentile(cumulative, n, 25)],
           [variable |-> "brightness_median", value |-> Percentile(cumulative, n, 50)],
           [variable |-> "brightness_75", value |-> Percentile(cumulative, n, 75)],
           [variable |-> "brightness_variance", value |-> Variance(counts, n)],
           [variable |-> "brightness_stdev", value |-> Float],
           [variable |-> "brightness_skew", value |-> Float],
           [variable |-> "brightness_kurtosis", value |-> Float],
           [variable |-> "brightness_weighted_mean", value |-> mean_2(counts)],
           [variable |-> "brightness_2_weighted_mean", value |-> mean_3(counts)],
           [variable |-> "brightness_1_4_weighted_mean", value |-> Float],
           [variable |-> "brightness_dispersity",
            value |-> Dispersity(mean_2(counts), Mean(counts, n))] >>

(* lines 361-369 *)
RECURSIVE ThresholdResults(_, _, _, _)
ThresholdResults(results, cumulative, n, k) ==
    IF k > Len(Thresholds) THEN results
    ELSE ThresholdResults(
             AddResult(results, Thresholds[k].name,
                       Whole(ThresholdBrightness(cumulative, n, Thresholds[k].percent))),
             cumulative, n, k + 1)

(* Evaluator.calculate_distribution_params, called by run_density after    *)
(* create_brightness_arrays.  int() of an index array with more than one   *)
(* element raises TypeError (line 237).                                    *)
calculate_distribution_params ==
    /\ hist_outcome = "done"
    /\ stat_outcome = "not_called"
    /\ IF Cardinality(PeakIndices(brightness_counts)) # 1
       THEN /\ stat_results' = ResultsBeforePeak(brightness_counts)
            /\ stat_outcome' = "TypeError"
       ELSE /\ stat_results' =
                   ThresholdResults(
                       ResultsBeforePeak(brightness_counts)
                           \o ResultsAfterPeak(brightness_counts,
                                               brightness_cumulative,
                                               number_total_pixels),
                       brightness_cumulative, number_total_pixels, 1)
            /\ stat_outcome' = "done"
    /\ UNCHANGED <<oldVars, orientVars, evalVars, growVars, circleVars>>

InitHist ==
    /\ IdleExt
    /\ IdleOD
    /\ IdlePin
    /\ IdleCrop
    /\ grey_photo \in [Pixels -> brightness_array]
    /\ cropped_mask \in [Pixels -> BOOLEAN]
    /\ number_total_pixels = 0
    /\ brightness_counts = <<>>
    /\ brightness_cumulative = <<>>
    /\ hist_outcome = "not_called"

NextHist ==
    \/ create_brightness_arrays
    \/ calculate_distribution_params

SpecHist == InitHist /\ [][NextHist]_vars

----------------------------------------------------------------------------
(* The pinhole detector.  A photo is a grid of PinRows x PinCols pixels;   *)
(* a boolean image is the set of its True pixels.  MinimumSize stands for  *)
(* CALIBRATION_1["minimum_size"] (6 pixels in the program), scaled to the  *)
(* grid.                                                                   *)
PinRows == 2
PinCols == 3
MinimumSize == 2

threshold == 175

Grid == (1..PinRows) \X (1..PinCols)

(* The configurations of PINHOLE_CLASS_STEPS the model runs with: the one  *)
(* of the program, small ones in and out of order, and invalid ones.       *)
StepConfigs ==
    { <<50, 100, 150, 350>>, <<6, 9, 12, 15>>, <<12, 6, 15, 9>>,
      <<6, 6, 12, 15>>, <<6, 9, 12>>, <<6, 9, 12, 15, 18>> }

(* The masks the model runs with: the leftmost k columns are background.   *)
PinMasks == {{px \in Grid : px[2] > k} : k \in 0..1}

(* Pinholer.conv_pixel_diameter in millionths of a micrometre, with the    *)
(* coefficients of CALIBRATION_1["parameters"] cut to that grid.           *)
MicroPerUnit == 1000000

conv_pixel_diameter(x) ==
    2978793 * x
    - (1162140 * x * x) \div 100
    + (267696 * x * x * x) \div 10000
    + (1796 * x * x * x * x) \div 1000000

(* np.invert of a boolean image *)
Invert(image) == Grid \ image

(* Pixels q next to p: connectivity 1 has the 4 edge neighbours,           *)
(* connectivity 2 also the 4 diagonal ones.                                *)
IsNeighbour(px, q, connectivity) ==
    LET dr == IF px[1] > q[1] THEN px[1] - q[1] ELSE q[1] - px[1]
        dc == IF px[2] > q[2] THEN px[2] - q[2] ELSE q[2] - px[2]
    IN  IF connectivity = 1 THEN dr + dc = 1
        ELSE dr <= 1 /\ dc <= 1 /\ dr + dc > 0

RECURSIVE Flood(_, _, _)
Flood(image, region, connectivity) ==
    LET next == region \cup
                {q \in image : \E px \in region : IsNeighbour(px, q, connectivity)}
    IN  IF next = region THEN region ELSE Flood(image, next, connectivity)

(* The connected components of the True pixels of an image. *)
Components(image, connectivity) ==
    {Flood(image, {px}, connectivity) : px \in image}

(* skimage.morphology.remove_small_objects: components (connectivity 1 by  *)
(* default) with fewer than min_size pixels are cleared.                   *)
remove_small_objects(image, min_size) ==
    UNION {c \in Components(image, 1) : ~(Cardinality(c) < min_size)}

(* skimage.morphology.remove_small_holes: the small objects of the inverse *)
(* are removed and the result inverted.                                    *)
remove_small_holes(image, area_threshold) ==
    Invert(remove_small_objects(Invert(image), area_threshold))

(* Pinholer.binarize_photo, lines 154-157 *)
Binarize_IgnoreMask(gray, mask) ==
    {px \in Grid : gray[px] > threshold}

Binarize(gray, mask) ==
    {px \in Grid : gray[px] > threshold /\ px \in mask}

(* Pinholer.big_holes, lines 162-167 *)
BigHoles_SmallerThreshold(photo) ==
    Invert(remove_small_holes(Invert(photo), MinimumSize - 1))

BigHoles(photo) ==
    Invert(remove_small_holes(Invert(photo), MinimumSize))

(* Raster order of the pixels: row by row, left to right. *)
RasterBefore(px, q) == px[1] < q[1] \/ (px[1] = q[1] /\ px[2] < q[2])

FirstPixel(region) == CHOOSE px \in region : \A q \in region \ {px} : RasterBefore(px, q)

(* skimage.morphology.label with the default (full) connectivity: the      *)
(* regions are numbered from 1 in the raster order of their first pixels;  *)
(* background pixels get 0.                                                *)
Label(image) ==
    LET regions == Components(image, 2)
        RegionOf(px) == CHOOSE c \in regions : px \in c
        Number(c) == 1 + Cardinality({d \in regions :
                                        RasterBefore(FirstPixel(d), FirstPixel(c))})
    IN  [px \in Grid |-> IF px \in image THEN Number(RegionOf(px)) ELSE 0]

(* np.max(labels) *)
MaxLabel(labels) ==
    CHOOSE n \in {labels[px] : px \in Grid} : \A px \in Grid : labels[px] <= n

(* skimage.measure.regionprops(labels): one region per label that occurs,  *)
(* in ascending label order; area is its number of pixels.                 *)
RegionArea(labels, l) == Cardinality({px \in Grid : labels[px] = l})

(* steps.sort(): insertion of each element into the sorted prefix *)
RECURSIVE SortList(_)
SortList(seq) ==
    IF seq = <<>> THEN <<>>
    ELSE LET rest   == SortList(Tail(seq))
             x      == Head(seq)
             before == SelectSeq(rest, LAMBDA y : y <= x)
             after  == SelectSeq(rest, LAMBDA y : y > x)
         IN  before \o <<x>> \o after

SetSteps_Unsorted(config) == config

SetSteps(config) == SortList(config)

(* extract_pinhole_details, lines 226-235: the if/elif chain on the        *)
(* diameter (in millionths) and the breakpoints (in micrometres).          *)
Category(diameter, st) ==
    IF diameter < st[1] * MicroPerUnit THEN 1
    ELSE IF diameter < st[2] * MicroPerUnit THEN 2
    ELSE IF diameter < st[3] * MicroPerUnit THEN 3
    ELSE IF diameter < st[4] * MicroPerUnit THEN 4
    ELSE 5

(* One row of details (lines 210-221); centroid, equivalent diameter and   *)
(* solidity of the region are left out.                                    *)
DetailsRow(labels, number, l, st) ==
    [number   |-> number,
     area     |-> RegionArea(labels, l),
     diameter |-> conv_pixel_diameter(RegionArea(labels, l)),
     category |-> Category(conv_pixel_diameter(RegionArea(labels, l)), st)]

(* The loop of extract_pinhole_details over regionprops(labels), number    *)
(* counting from 1.                                                        *)
ExtractDetails_SkipFirst(labels, st) ==
    [k \in 1..(MaxLabel(labels) - 1) |-> DetailsRow(labels, k, k + 1, st)]

ExtractDetails(labels, st) ==
    [k \in 1..MaxLabel(labels) |-> DetailsRow(labels, k, k, st)]

(* Pinholer.set_steps *)
set_steps ==
    /\ pin_pc = "constructed"
    /\ IF Cardinality({PINHOLE_CLASS_STEPS[i] : i \in DOMAIN PINHOLE_CLASS_STEPS}) # 4
       THEN /\ pin_pc' = "ValueError"
            /\ UNCHANGED steps
       ELSE /\ steps' = SetSteps(PINHOLE_CLASS_STEPS)
            /\ pin_pc' = "steps_set"
    /\ UNCHANGED <<PINHOLE_CLASS_STEPS, gray_photo, pinholer_mask, binarized_photo,
                   holes, labels_holes, no_pinholes, details>>
    /\ UNCHANGED <<odVars, histVars, cropVars, extVars>>

(* Pinholer.binarize_photo *)
binarize_photo ==
    /\ pin_pc = "steps_set"
    /\ binarized_photo' = Binarize(gray_photo, pinholer_mask)
    /\ pin_pc' = "binarized"
    /\ UNCHANGED <<PINHOLE_CLASS_STEPS, gray_photo, pinholer_mask,
                   holes, labels_holes, no_pinholes, steps, details>>
    /\ UNCHANGED <<odVars, histVars, cropVars, extVars>>

(* Pinholer.big_holes *)
big_holes ==
    /\ pin_pc = "binarized"
    /\ holes' = BigHoles(binarized_photo)
    /\ pin_pc' = "holes"
    /\ UNCHANGED <<PINHOLE_CLASS_STEPS, gray_photo, pinholer_mask, binarized_photo,
                   labels_holes, no_pinholes, steps, details>>
    /\ UNCHANGED <<odVars, histVars, cropVars, extVars>>

(* Pinholer.label_holes *)
label_holes ==
    /\ pin_pc = "holes"
    /\ labels_holes' = Label(holes)
    /\ no_pinholes' = MaxLabel(Label(holes))
    /\ pin_pc' = "labeled"
    /\ UNCHANGED <<PINHOLE_CLASS_STEPS, gray_photo, pinholer_mask, binarized_photo,
                   holes, steps, details>>
    /\ UNCHANGED <<odVars, histVars, cropVars, extVars>>

(* Pinholer.extract_pinhole_details *)
extract_pinhole_details ==
    /\ pin_pc = "labeled"
    /\ details' = ExtractDetails(labels_holes, steps)
    /\ pin_pc' = "extracted"
    /\ UNCHANGED <<PINHOLE_CLASS_STEPS, gray_photo, pinholer_mask, binarized_photo,
                   holes, labels_holes, no_pinholes, steps>>
    /\ UNCHANGED <<odVars, histVars, cropVars, extVars>>

(* run_pinholes on any photo of the grid whose pixels are at the threshold *)
(* or just above it, under any of the masks and configurations.            *)
InitPin ==
    /\ IdleExt
    /\ IdleOD
    /\ IdleHist
    /\ IdleCrop
    /\ PINHOLE_CLASS_STEPS \in StepConfigs
    /\ gray_photo \in [Grid -> {threshold, threshold + 1}]
    /\ pinholer_mask \in PinMasks
    /\ binarized_photo = {}
    /\ holes = {}
    /\ labels_holes = <<>>
    /\ no_pinholes = 0
    /\ steps = <<>>
    /\ details = <<>>
    /\ pin_pc = "constructed"

NextPin ==
    \/ set_steps
    \/ binarize_photo
    \/ big_holes
    \/ label_holes
    \/ extract_pinhole_details

SpecPin == InitPin /\ [][NextPin]_vars

(* Bounds of the configurations given to set_steps alone: the number of    *)
(* entries and the largest entry.                                          *)
MaxStepsLen == 5
MaxStep == 5

(* Every list of 3 to MaxStepsLen breakpoints from 1 to MaxStep. *)
AllStepConfigs == UNION {[1..n -> 1..MaxStep] : n \in 3..MaxStepsLen}

(* A Pinholer that is given any configuration of breakpoints and calls     *)
(* set_steps.                                                              *)
InitSteps ==
    /\ IdleExt
    /\ IdleOD
    /\ IdleHist
    /\ IdleCrop
    /\ PINHOLE_CLASS_STEPS \in AllStepConfigs
    /\ gray_photo = <<>>
    /\ pinholer_mask = {}
    /\ binarized_photo = {}
    /\ holes = {}
    /\ labels_holes = <<>>
    /\ no_pinholes = 0
    /\ steps = <<>>
    /\ details = <<>>
    /\ pin_pc = "constructed"

NextSteps == set_steps

SpecSteps == InitSteps /\ [][NextSteps]_vars

----------------------------------------------------------------------------
(* Photo.autocrop.  The photo and its mask have CropRows x CropCols        *)
(* pixels, rows and columns counted from 0 as in the program.              *)
CropRows == 5
CropCols == 5
MaxMargin == 3

RowIndices == 0..(CropRows - 1)
ColIndices == 0..(CropCols - 1)

(* The masks the model runs with: the pixels where a set of rows meets a   *)
(* set of columns (the empty mask among them).                             *)
CropMasks ==
    {R \X C : R \in SUBSET RowIndices, C \in SUBSET ColIndices}

Min(a, b) == IF a < b THEN a ELSE b
Max(a, b) == IF a > b THEN a ELSE b
MinOf(S) == CHOOSE x \in S : \A y \in S : x <= y
MaxOf(S) == CHOOSE x \in S : \A y \in S : x >= y

(* get_crop_edges, lines 744-759: <<top, bottom, left, right>> *)
get_crop_edges(binary_mask) ==
    LET indices_y == {px[1] : px \in binary_mask}
        indices_x == {px[2] : px \in binary_mask}
    IN  << MinOf(indices_y),
           CropRows - MaxOf(indices_y) - 1,
           MinOf(indices_x),
           CropCols - MaxOf(indices_x) - 1 >>

(* A margin test that refuses nothing. *)
MarginRejected_Never(margin) == FALSE

(* A margin test that refuses only margins above half the smaller side. *)
MarginRejected_OnlyLarge(margin) == 2 * margin > Min(CropRows, CropCols)

(* crop_photo, lines 808-812: the test that guards the margin error *)
MarginRejected(margin) ==
    LET smaller_side == Min(CropRows, CropCols)
    IN  (~(margin >= 0)) /\ 2 * margin <= smaller_side

(* crop_photo, lines 824 and 831: the tests that guard the cut errors *)
HeightCutAccepted(edges, margin) ==
    edges[1] + edges[2] + margin * 2 < CropRows

WidthCutAccepted(edges, margin) ==
    edges[3] + edges[4] + margin * 2 < CropCols

(* The indices that the Python slice start:stop selects on an axis of      *)
(* n entries: a negative bound counts from the end, and both are clipped.  *)
PySlice(start, stop, n) ==
    LET lo == IF start < 0 THEN Max(0, n + start) ELSE Min(start, n)
        hi == IF stop < 0 THEN Max(0, n + stop) ELSE Min(stop, n)
    IN  lo..(hi - 1)

(* skimage.util.crop on one axis, lines 839-849: slice(a, n - b) *)
CropAxis(before, after, n) == PySlice(before, n - after, n)

(* Photo.autocrop with get_crop_edges, dimensions_patch and crop_photo.    *)
(* Both calls of crop_photo, on the photo and on the mask, get the same    *)
(* shape, edges and margin, so they end the same way.                      *)
autocrop ==
    /\ crop_outcome = "ready"
    /\ IF photo_mask = {}
       THEN /\ crop_outcome' = "IndexError"
            /\ UNCHANGED <<crop_edges, height_patch, width_patch, kept_rows,
                           kept_cols, photo_cropped_mask>>
       ELSE LET edges == get_crop_edges(photo_mask)
                rows  == CropAxis(edges[1] - autocrop_margin,
                                  edges[2] - autocrop_margin, CropRows)
                cols  == CropAxis(edges[3] - autocrop_margin,
                                  edges[4] - autocrop_margin, CropCols)
            IN  /\ crop_edges' = edges
                /\ height_patch' = CropRows - edges[1] - edges[2]
                /\ width_patch' = CropCols - edges[3] - edges[4]
                /\ IF MarginRejected(autocrop_margin)
                   THEN /\ crop_outcome' = "ValueError"
                        /\ UNCHANGED <<kept_rows, kept_cols, photo_cropped_mask>>
                   ELSE IF \/ ~HeightCutAccepted(edges, autocrop_margin)
                           \/ ~WidthCutAccepted(edges, autocrop_margin)
                   THEN /\ crop_outcome' = "NameError"
                        /\ UNCHANGED <<kept_rows, kept_cols, photo_cropped_mask>>
                   ELSE /\ kept_rows' = rows
                        /\ kept_cols' = cols
                        /\ photo_cropped_mask' =
                              {px \in photo_mask : px[1] \in rows /\ px[2] \in cols}
                        /\ crop_outcome' = "cropped"
    /\ UNCHANGED <<photo_mask, autocrop_margin>>
    /\ UNCHANGED <<odVars, histVars, pinVars, extVars>>

(* Evaluator.__init__, lines 65-68, on the photo that run_photo left: the  *)
(* photo has the attributes cropped_photo and cropped_mask when autocrop   *)
(* has returned, in which case they are taken as they are.                 *)
Evaluator_init ==
    /\ crop_outcome = "cropped"
    /\ evaluator_pc = "none"
    /\ LET has_cropped == crop_outcome = "cropped"
       IN  /\ evaluator_rows' = IF has_cropped THEN kept_rows ELSE RowIndices
           /\ evaluator_cols' = IF has_cropped THEN kept_cols ELSE ColIndices
           /\ evaluator_mask' = IF has_cropped THEN photo_cropped_mask
                                ELSE photo_mask
    /\ evaluator_pc' = "initiated"
    /\ UNCHANGED <<setting_autocrop, oldVars, orientVars, statVars, growVars,
                   circleVars>>

(* run_photo calls autocrop for every photo (lines 906-910); the setting   *)
(* autocrop is set from the GUI and read by no line of the pipeline.       *)
InitCrop ==
    /\ IdleBatch
    /\ IdleCalib
    /\ IdlePrep
    /\ IdleOrient
    /\ IdleStat
    /\ IdleGrow
    /\ IdleCircle
    /\ setting_autocrop \in BOOLEAN
    /\ evaluator_rows = {}
    /\ evaluator_cols = {}
    /\ evaluator_mask = {}
    /\ evaluator_pc = "none"
    /\ IdleOD
    /\ IdleHist
    /\ IdlePin
    /\ photo_mask \in CropMasks
    /\ autocrop_margin \in (0 - 1)..MaxMargin
    /\ crop_edges = <<>>
    /\ height_patch = 0
    /\ width_patch = 0
    /\ kept_rows = {}
    /\ kept_cols = {}
    /\ photo_cropped_mask = {}
    /\ crop_outcome = "ready"

NextCrop ==
    \/ autocrop
    \/ Evaluator_init

SpecCrop == InitCrop /\ [][NextCrop]_vars

----------------------------------------------------------------------------
(* Specification of the calibration inversion: a table is installed, then  *)
(* convert_OD is called with any measured value, any number of times.      *)
InitOD ==
    /\ IdleExt
    /\ IdleHist
    /\ IdlePin
    /\ IdleCrop
    /\ \E n \in 2..MaxTableLen : calibration_density \in CalibrationTables(n)
    /\ weighted_mean = 0
    /\ od_outcome = "not_called"
    /\ optical_density = NoValue
    /\ index_above = 0
    /\ index_below = 0

CallConvertOD ==
    \E v \in MeasuredValues :
      \E res \in convert_OD(calibration_density, v) :
        /\ weighted_mean' = v
        /\ od_outcome' = res.outcome
        /\ optical_density' = res.value
        /\ index_above' = res.index_above
        /\ index_below' = res.index_below
        /\ UNCHANGED <<calibration_density, histVars, pinVars, cropVars, extVars>>

NextOD == CallConvertOD

SpecOD == InitOD /\ [][NextOD]_vars

----------------------------------------------------------------------------
(* The batch loop of run_button (analysis.py).                             *)
(*                                                                         *)
(* A photo file is described by what its pipeline does: the value its      *)
(* results take (content), how many of the results of ResultNames the      *)
(* pipeline records before it stops (recorded), and whether it stops by    *)
(* raising (raises).  A pipeline that does not raise records them all.     *)
(* The results object is the pair of its attribute_list and its            *)
(* attributes; a name that is not an attribute has NoValue.                *)

(* Bounds of the batch model. *)
MaxFiles == 2
MaxContent == 2

(* interface.VERSION, "1.1", counted in tenths. *)
VERSION == 11

(* The results that run_photo (image_type, ExposureTime), run_pinholes     *)
(* (no_pinholes) and run_density (optical_density) record, in this order.  *)
ResultNames == <<"image_type", "ExposureTime", "no_pinholes", "optical_density">>

AllNames == {"version"} \cup {ResultNames[i] : i \in 1..Len(ResultNames)}

Photos ==
    {p \in [content : 1..MaxContent, recorded : 0..Len(ResultNames),
            raises : BOOLEAN] :
        (~p.raises) => p.recorded = Len(ResultNames)}

FileLists == UNION {[1..n -> Photos] : n \in 1..MaxFiles}

(* Results.__init__ *)
Results == [attribute_list |-> <<>>, values |-> [n \in AllNames |-> NoValue]]

(* Results.add_result: the test on the types of two string literals is     *)
(* always true, so the attribute is set and its name appended again.       *)
add_result(res, variable, value) ==
    [attribute_list |-> Append(res.attribute_list, variable),
     values |-> [res.values EXCEPT ![variable] = value]]

(* Results.export_csv: one row per entry of attribute_list, with the       *)
(* attribute's current value.                                              *)
export_csv(res) ==
    [i \in 1..Len(res.attribute_list) |->
        <<res.attribute_list[i], res.values[res.attribute_list[i]]>>]

(* The results object when the loop starts: created once by run_button     *)
(* (line 34 calls interface.initiate_results, for which interface.py has   *)
(* no definition; run_interface creates the object with Results()), which  *)
(* then records the version.  The settings that run_button copies into the *)
(* results are the same for every photo and are left out.                  *)
InitialResults == add_result(Results, "version", VERSION)

(* The add_result calls of one pipeline run on photo p: its first k        *)
(* results, in order.                                                      *)
RECURSIVE RecordResults(_, _, _)
RecordResults(res, p, k) ==
    IF k = 0 THEN res
    ELSE add_result(RecordResults(res, p, k - 1), ResultNames[k], p.content)

(* run_photo, run_pinholes and run_density on photo p, up to the place     *)
(* where it raises or to the end.                                          *)
RunPipeline(res, p) == RecordResults(res, p, p.recorded)

(* A loop that leaves at the first error. *)
LoopAdvance_AbortRun(index, raised, n) == IF raised THEN n ELSE index + 1

(* The for statement: the next file is taken whether or not the body       *)
(* raised, the except clause swallows the error.                           *)
LoopAdvance(index, raised, n) == index + 1

(* One pass of the loop body of run_button for the next file: the pipeline *)
(* in the try block, then end_analysis (export and log), or the except     *)
(* clause (log).                                                           *)
evaluate_file ==
    /\ batch_pc = "loop"
    /\ file_index < Len(file_list)
    /\ LET file == file_index + 1
           p == file_list[file]
           res == RunPipeline([attribute_list |-> attribute_list,
                               values |-> result_values], p)
       IN  /\ attribute_list' = res.attribute_list
           /\ result_values' = res.values
           /\ IF p.raises
              THEN /\ batch_log' = Append(batch_log,
                                          [event |-> "error", file |-> file])
                   /\ UNCHANGED exported
              ELSE /\ exported' = Append(exported,
                                         [file |-> file, rows |-> export_csv(res)])
                   /\ batch_log' = Append(batch_log,
                                          [event |-> "completed", file |-> file])
           /\ file_index' = LoopAdvance(file_index, p.raises, Len(file_list))
    /\ UNCHANGED <<file_list, pbar, batch_pc>>
    /\ UNCHANGED notBatchVars

(* The end of run_button after the loop: the progress bar is finished and  *)
(* "DONE." is logged.                                                      *)
finish_run ==
    /\ batch_pc = "loop"
    /\ file_index >= Len(file_list)
    /\ pbar' = "finished"
    /\ batch_log' = Append(batch_log, [event |-> "DONE", file |-> 0])
    /\ batch_pc' = "done"
    /\ UNCHANGED <<file_list, file_index, attribute_list, result_values, exported>>
    /\ UNCHANGED notBatchVars

(* run_button in batch mode when it reaches the loop, for any file list. *)
InitBatch ==
    /\ IdleCore
    /\ IdleCalib
    /\ IdlePrep
    /\ IdleAdd
    /\ file_list \in FileLists
    /\ file_index = 0
    /\ attribute_list = InitialResults.attribute_list
    /\ result_values = InitialResults.values
    /\ exported = <<>>
    /\ batch_log = <<>>
    /\ pbar = "running"
    /\ batch_pc = "loop"

NextBatch ==
    \/ evaluate_file
    \/ finish_run

SpecBatch == InitBatch /\ [][NextBatch]_vars

(* run_button is straight-line code around a for loop over a finite list:  *)
(* once started it keeps taking steps until it returns.                    *)
FairSpecBatch == SpecBatch /\ WF_vars(NextBatch)

----------------------------------------------------------------------------
(* The exposure-time checks of the detector and the evaluator              *)
(* (Pinholer.__init__, Evaluator.__init__) inside the try block of         *)
(* run_button, after run_photo has recorded the photo's ExposureTime.      *)

(* Bounds of the exposure-time model. *)
MaxExposureOffset == 2
MaxDefects == 5

(* CALIBRATION_1["exposure_time"] and CALIBRATION_A["exposure_time"], in   *)
(* seconds.                                                                *)
calibration_pinholes_exposure_time == 30
calibration_density_exposure_time == 30

ExposureTimes ==
    (calibration_density_exposure_time - MaxExposureOffset)
        ..(calibration_density_exposure_time + MaxExposureOffset)

(* The results that Pinholer.__init__ adds before it compares the          *)
(* exposure times.                                                         *)
PinholerCalibrationResults ==
    <<"calibration_pinholes_name", "calibration_pinholes_date",
      "calibration_pinholes_threshold", "calibration_pinholes_parameters",
      "calibration_pinholes_minimum_pixels", "calibration_pinholes_minimum_size",
      "calibration_pinholes_exposure_time">>

(* The results that Evaluator.__init__ adds before it compares the         *)
(* exposure times.                                                         *)
EvaluatorCalibrationResults ==
    <<"calibration_density_name", "calibration_density_date",
      "calibration_density_parameters", "calibration_density_exposure_time">>

(* Results of the methods that run_density calls after the constructor. *)
EvaluatorResults == <<"number_pixels", "brightness_weighted_mean", "optical_density">>

(* What the methods called by run_pinholes after the constructor compute. *)
PinholerComputations == {"binarization", "labeling", "defect_record"}

(* What the methods called by run_density after the constructor compute. *)
EvaluatorComputations == {"histogram", "statistic", "optical_density"}

(* A mismatch that no constructor notices. *)
ExposureMismatch_Ignored(calibration_exposure, photo_exposure) == FALSE

(* The test of both constructors. *)
ExposureMismatch(calibration_exposure, photo_exposure) ==
    calibration_exposure # photo_exposure

(* run_pinholes: the constructor records the calibration and compares the  *)
(* exposure times; building the message of the error reads the missing     *)
(* attribute interface.results.exposure_time, so the error is an           *)
(* AttributeError.  Otherwise the detector runs and finds some number of   *)
(* defects.                                                                *)
run_pinholes ==
    /\ calib_pc = "photo_done"
    /\ use_pinholes
    /\ calib_recorded' = calib_recorded \o PinholerCalibrationResults
    /\ IF ExposureMismatch(calibration_pinholes_exposure_time, results_ExposureTime)
       THEN /\ calib_outcome' = "AttributeError"
            /\ calib_pc' = "aborted"
            /\ UNCHANGED <<computed, defect_records>>
       ELSE /\ \E n \in 0..MaxDefects : defect_records' = n
            /\ computed' = computed \cup PinholerComputations
            /\ calib_pc' = "pinholes_done"
            /\ UNCHANGED calib_outcome
    /\ UNCHANGED <<results_ExposureTime, use_pinholes, analyze_brightness,
                   evaluated_od>>
    /\ UNCHANGED notCalibVars

(* run_density: the constructor records the calibration and compares the   *)
(* exposure times.  Otherwise the evaluator runs; its optical density is   *)
(* a value or None.                                                        *)
run_density ==
    /\ analyze_brightness
    /\ \/ calib_pc = "pinholes_done"
       \/ calib_pc = "photo_done" /\ ~use_pinholes
    /\ IF ExposureMismatch(calibration_density_exposure_time, results_ExposureTime)
       THEN /\ calib_recorded' = calib_recorded \o EvaluatorCalibrationResults
            /\ calib_outcome' = "Exception"
            /\ calib_pc' = "aborted"
            /\ UNCHANGED <<computed, evaluated_od>>
       ELSE /\ calib_recorded' = calib_recorded \o EvaluatorCalibrationResults
                                     \o EvaluatorResults
            /\ \E od \in {NoValue} \cup PhysicalValues : evaluated_od' = od
            /\ computed' = computed \cup EvaluatorComputations
            /\ calib_pc' = "density_done"
            /\ UNCHANGED calib_outcome
    /\ UNCHANGED <<results_ExposureTime, use_pinholes, analyze_brightness,
                   defect_records>>
    /\ UNCHANGED notCalibVars

(* end_analysis, reached when no step of the try block raised. *)
end_analysis ==
    /\ \/ calib_pc = "density_done"
       \/ calib_pc = "pinholes_done" /\ ~analyze_brightness
       \/ calib_pc = "photo_done" /\ ~use_pinholes /\ ~analyze_brightness
    /\ calib_outcome' = "completed"
    /\ calib_pc' = "ended"
    /\ UNCHANGED <<results_ExposureTime, use_pinholes, analyze_brightness,
                   evaluated_od, calib_recorded, computed, defect_records>>
    /\ UNCHANGED notCalibVars

(* The try block of run_button after run_photo, for any recorded exposure  *)
(* time and any choice of the two analyses.                                *)
InitCalib ==
    /\ IdleCore
    /\ IdleBatch
    /\ IdlePrep
    /\ IdleAdd
    /\ results_ExposureTime \in ExposureTimes
    /\ use_pinholes \in BOOLEAN
    /\ analyze_brightness \in BOOLEAN
    /\ evaluated_od = NoValue
    /\ calib_recorded = <<>>
    /\ computed = {}
    /\ defect_records = 0
    /\ calib_outcome = "running"
    /\ calib_pc = "photo_done"

NextCalib ==
    \/ run_pinholes
    \/ run_density
    \/ end_analysis

SpecCalib == InitCalib /\ [][NextCalib]_vars

----------------------------------------------------------------------------
(* The preparation of the photo by run_photo (photo.py): add_mask with     *)
(* mask_file or automask, flip_photo_mask, get_orientation and             *)
(* rotate_photo_mask.  The threshold of automask is the caller's           *)
(* (binarize_auto is False).  Angles are in degrees, grow in hundredths.   *)
(*                                                                         *)
(* The photos are smaller than the footprints of automask (disk(10),       *)
(* square(10)) and than its area thresholds, (edge / 24) ** 2 and          *)
(* (edge / 16) ** 2, which are below one pixel: remove_small_holes and     *)
(* remove_small_objects change nothing, and each opening keeps an image    *)
(* that is True everywhere and clears every other image, because the       *)
(* erosion looks at the whole image from every pixel.                      *)

(* Bound of the preparation model: the longest side of a photo or mask. *)
MaxSide == 2

Shapes == (1..MaxSide) \X (1..MaxSide)

PrepGrid(shape) == (0..(shape[1] - 1)) \X (0..(shape[2] - 1))

GrayValues == {10, 255}

BinarizeThresholds == {0 - 1, 0, 10, 254, 255}

GrowValues == {40, 50, 99, 100, 110}

(* Values of Photo.orientation, regionprops' orientation minus pi/2. *)
Orientations == {0 - 90, 0 - 45, 0}

(* The test of automask: "not (grow >= 0.5) and (grow < 1)". *)
GrowRejected(grow) == (~(grow >= 50)) /\ grow < 100

(* The test of mask_file:                                                  *)
(* "not (self.height == self.mask_height) and (self.width == self.mask_width)". *)
DimensionsRejected(shape, file_shape) ==
    (~(shape[1] = file_shape[1])) /\ shape[2] = file_shape[2]

(* binarize_photo of automask: gray > thresh, for any thresh. *)
BinarizePhoto(gray, shape, thresh) == {px \in PrepGrid(shape) : gray[px] > thresh}

(* binary_opening with a footprint that covers the image. *)
Opening(image, shape) == IF image = PrepGrid(shape) THEN image ELSE {}

(* gaussian and "hull3 > grow": the blurred image is 1.0 where the hull is *)
(* True everywhere (up to the rounding of the filter, which decides the    *)
(* comparison with 1.0 either way) and 0.0 where it is empty.              *)
FinalBinarization(hull, shape, grow) ==
    IF hull = PrepGrid(shape)
    THEN IF grow < 100 THEN {PrepGrid(shape)}
         ELSE IF grow = 100 THEN {PrepGrid(shape), {}}
         ELSE {{}}
    ELSE IF grow < 0 THEN {PrepGrid(shape)} ELSE {{}}

(* The masks automask can set from a binarized photo. *)
AutomaskMasks(binarized, shape, grow) ==
    FinalBinarization(Opening(Opening(binarized, shape), shape), shape, grow)

(* skimage.transform.rotate with resize=False keeps the shape. *)
RotatedShape(shape, angle) == shape

(* The angle of rotate_photo_mask: -orientation * 180 / pi - 180. *)
RotationAngle(o) == 0 - o - 180

(* add_mask.  automask tests grow, binarizes with the caller's threshold   *)
(* and sets a mask of the photo's shape.  mask_file sets the mask and then *)
(* tests the dimensions; reporting a mismatch reads the name logging,      *)
(* which photo.py does not define.                                         *)
add_mask ==
    /\ prep_pc = "photo_loaded"
    /\ IF setting_automask
       THEN IF GrowRejected(automask_grow)
            THEN /\ prep_outcome' = "ValueError"
                 /\ prep_pc' = "aborted"
                 /\ UNCHANGED <<thresh_value, prep_binarized, mask_shape,
                                unmasked_pixels>>
            ELSE /\ thresh_value' = binarize_threshold
                 /\ prep_binarized' =
                        BinarizePhoto(photo_gray, photo_shape, binarize_threshold)
                 /\ \E mask \in AutomaskMasks(prep_binarized', photo_shape,
                                              automask_grow) :
                        unmasked_pixels' = Cardinality(mask)
                 /\ mask_shape' = photo_shape
                 /\ prep_pc' = "masked"
                 /\ UNCHANGED prep_outcome
       ELSE /\ mask_shape' = mask_file_shape
            /\ UNCHANGED <<thresh_value, prep_binarized>>
            /\ IF DimensionsRejected(photo_shape, mask_file_shape)
               THEN /\ prep_outcome' = "NameError"
                    /\ prep_pc' = "aborted"
                    /\ UNCHANGED unmasked_pixels
               ELSE /\ unmasked_pixels' = mask_file_nonzero
                    /\ prep_pc' = "masked"
                    /\ UNCHANGED prep_outcome
    /\ UNCHANGED <<photo_gray, photo_shape, mask_file_shape, mask_file_nonzero,
                   setting_automask, automask_grow, binarize_threshold,
                   setting_flip, setting_autorotate, orientation, photo_angles,
                   mask_angles>>
    /\ UNCHANGED notPrepVars

(* flip_photo_mask: with the flip setting, photo and mask are rotated by   *)
(* 180 degrees.                                                            *)
flip_photo_mask ==
    /\ prep_pc = "masked"
    /\ IF setting_flip
       THEN /\ photo_angles' = Append(photo_angles, 180)
            /\ photo_shape' = RotatedShape(photo_shape, 180)
            /\ mask_angles' = Append(mask_angles, 180)
            /\ mask_shape' = RotatedShape(mask_shape, 180)
       ELSE UNCHANGED <<photo_angles, photo_shape, mask_angles, mask_shape>>
    /\ prep_pc' = "flipped"
    /\ UNCHANGED <<photo_gray, mask_file_shape, mask_file_nonzero,
                   setting_automask, automask_grow, binarize_threshold,
                   setting_flip, setting_autorotate, thresh_value,
                   prep_binarized, unmasked_pixels, orientation, prep_outcome>>
    /\ UNCHANGED notPrepVars

(* get_orientation: a mask without a nonzero pixel has no region and the   *)
(* method raises; otherwise the first region gives the orientation.        *)
get_orientation ==
    /\ prep_pc = "flipped"
    /\ IF unmasked_pixels = 0
       THEN /\ prep_outcome' = "Exception"
            /\ prep_pc' = "aborted"
            /\ UNCHANGED orientation
       ELSE /\ \E o \in Orientations : orientation' = o
            /\ prep_pc' = "oriented"
            /\ UNCHANGED prep_outcome
    /\ UNCHANGED <<photo_gray, photo_shape, mask_file_shape, mask_file_nonzero,
                   setting_automask, automask_grow, binarize_threshold,
                   setting_flip, setting_autorotate, thresh_value,
                   prep_binarized, mask_shape, unmasked_pixels, photo_angles,
                   mask_angles>>
    /\ UNCHANGED notPrepVars

(* rotate_photo_mask: with the autorotate setting, photo and mask are      *)
(* rotated by the angle computed from the orientation.                     *)
rotate_photo_mask ==
    /\ prep_pc = "oriented"
    /\ IF setting_autorotate
       THEN /\ photo_angles' = Append(photo_angles, RotationAngle(orientation))
            /\ photo_shape' = RotatedShape(photo_shape, RotationAngle(orientation))
            /\ mask_angles' = Append(mask_angles, RotationAngle(orientation))
            /\ mask_shape' = RotatedShape(mask_shape, RotationAngle(orientation))
       ELSE UNCHANGED <<photo_angles, photo_shape, mask_angles, mask_shape>>
    /\ prep_pc' = "rotated"
    /\ prep_outcome' = "prepared"
    /\ UNCHANGED <<photo_gray, mask_file_shape, mask_file_nonzero,
                   setting_automask, automask_grow, binarize_threshold,
                   setting_flip, setting_autorotate, thresh_value,
                   prep_binarized, unmasked_pixels, orientation>>
    /\ UNCHANGED notPrepVars

(* run_photo after basic_attribs and check_exif, for any photo and         *)
(* settings: with automask any photo, grow and threshold; with a mask file *)
(* a mask of any shape that is nonzero everywhere or nowhere.              *)
InitPrep ==
    /\ IdleCore
    /\ IdleBatch
    /\ IdleCalib
    /\ IdleAdd
    /\ photo_shape \in Shapes
    /\ setting_automask \in BOOLEAN
    /\ IF setting_automask
       THEN /\ photo_gray \in [PrepGrid(photo_shape) -> GrayValues]
            /\ automask_grow \in GrowValues
            /\ binarize_threshold \in BinarizeThresholds
            /\ mask_file_shape = <<>>
            /\ mask_file_nonzero = 0
       ELSE /\ \E g \in GrayValues : photo_gray = [px \in PrepGrid(photo_shape) |-> g]
            /\ automask_grow = 65
            /\ binarize_threshold = 10
            /\ mask_file_shape \in Shapes
            /\ mask_file_nonzero \in {0, mask_file_shape[1] * mask_file_shape[2]}
    /\ setting_flip \in BOOLEAN
    /\ setting_autorotate \in BOOLEAN
    /\ thresh_value = NoValue
    /\ prep_binarized = {}
    /\ mask_shape = <<>>
    /\ unmasked_pixels = 0
    /\ orientation = 0
    /\ photo_angles = <<>>
    /\ mask_angles = <<>>
    /\ prep_outcome = "running"
    /\ prep_pc = "photo_loaded"

NextPrep ==
    \/ add_mask
    \/ flip_photo_mask
    \/ get_orientation
    \/ rotate_photo_mask

SpecPrep == InitPrep /\ [][NextPrep]_vars

----------------------------------------------------------------------------
(* The orientation of the patch (Photo.get_orientation).  The mask is a    *)
(* boolean image on the grid of the pinhole detector.                      *)

OrientMasks == SUBSET Grid

(* The sum of f over the pixels of a region. *)
RECURSIVE SumSet(_, _)
SumSet(f, S) ==
    IF S = {} THEN 0
    ELSE LET x == CHOOSE y \in S : TRUE
         IN  f[x] + SumSet(f, S \ {x})

(* The second central moments of a region, times the square of its area:   *)
(* regionprops derives the orientation angle from them, so two regions     *)
(* with different moments have their angles computed from different data.  *)
CentralMoments(region) ==
    LET area == Cardinality(region)
        sr   == SumSet([px \in Grid |-> px[1]], region)
        sc   == SumSet([px \in Grid |-> px[2]], region)
        srr  == SumSet([px \in Grid |-> px[1] * px[1]], region)
        scc  == SumSet([px \in Grid |-> px[2] * px[2]], region)
        src  == SumSet([px \in Grid |-> px[1] * px[2]], region)
    IN  <<area * srr - sr * sr, area * scc - sc * sc, area * src - sr * sc>>

(* regionprops(patch_label)[0]: the region of the smallest label, 1, which *)
(* label gives to the component whose first pixel comes first in raster    *)
(* order.  The sizes of the regions play no part in this choice.           *)
FirstRegion(labels) == {px \in Grid : labels[px] = 1}

(* Photo.get_orientation, lines 583-591: an empty list of regions makes    *)
(* the index fail, which the method turns into an Exception.               *)
get_orientation_of_mask ==
    /\ orient_outcome = "has_mask"
    /\ patch_label' = Label(orient_mask)
    /\ IF MaxLabel(patch_label') = 0
       THEN /\ measured_region' = {}
            /\ orient_moments' = <<>>
            /\ orient_outcome' = "raised"
       ELSE /\ measured_region' = FirstRegion(patch_label')
            /\ orient_moments' = CentralMoments(measured_region')
            /\ orient_outcome' = "returned"
    /\ UNCHANGED <<orient_mask, oldVars, statVars, evalVars, growVars, circleVars>>

InitOrient ==
    /\ IdleOld
    /\ IdleStat
    /\ IdleEval
    /\ IdleGrow
    /\ IdleCircle
    /\ orient_mask \in OrientMasks
    /\ patch_label = <<>>
    /\ measured_region = {}
    /\ orient_moments = <<>>
    /\ orient_outcome = "has_mask"

NextOrient == get_orientation_of_mask

SpecOrient == InitOrient /\ [][NextOrient]_vars

----------------------------------------------------------------------------
(* The final step of automask on a blurred hull of any content: the same   *)
(* hull3 is binarized with the midpoint 0.5 and with two values of grow.   *)
(* Blurred values and grow are in hundredths.                              *)
BlurPixels == 3

BlurLevels == {0, 50, 65, 99, 100}

GrowLevels == {50, 65, 99}

(* automask_final_binarization, lines 512-515: hull3 > grow *)
FinalMask_Inclusive(blurred, grow) == {px \in DOMAIN blurred : blurred[px] >= grow}

FinalMask(blurred, grow) == {px \in DOMAIN blurred : blurred[px] > grow}

automask_final_binarization ==
    /\ grow_pc < Len(grow_values)
    /\ grow_pc' = grow_pc + 1
    /\ grow_masks' = Append(grow_masks, FinalMask(hull3, grow_values[grow_pc']))
    /\ UNCHANGED <<hull3, grow_values, oldVars, orientVars, statVars, evalVars,
                   circleVars>>

InitGrow ==
    /\ IdleOld
    /\ IdleOrient
    /\ IdleStat
    /\ IdleEval
    /\ IdleCircle
    /\ hull3 \in [1..BlurPixels -> BlurLevels]
    /\ \E first, second \in GrowLevels : grow_values = <<50, first, second>>
    /\ grow_masks = <<>>
    /\ grow_pc = 0

NextGrow == automask_final_binarization

SpecGrow == InitGrow /\ [][NextGrow]_vars

----------------------------------------------------------------------------
(* The optical densities of the brightest and the darkest circle           *)
(* (Evaluator.calculate_OD, lines 420-477).  The photo is one row of       *)
(* HistPixels pixels with a brightness of brightness_array each; a centre  *)
(* is the column of a pixel.  The conversions of the weighted means by     *)
(* convert_OD are those of the calibration inversion above and leave the   *)
(* state of this component alone.                                          *)
MaxRadius == 2

(* sm.draw.disk(center, radius, shape=img.shape): the pixels of the image  *)
(* at a distance below radius from the centre.                             *)
Disk(centre, radius) ==
    {px \in Pixels : (px - centre) * (px - centre) < radius * radius}

(* np.count_nonzero(grey[rr, cc] == i) for i in self.brightness_array *)
CircleCounts(grey, disk) ==
    [i \in brightness_array |-> Cardinality({px \in disk : grey[px] = i})]

(* np.count_nonzero(grey[rr, cc]): the pixels of the circle whose          *)
(* brightness is not 0.                                                    *)
CountNonzero(grey, disk) == Cardinality({px \in disk : grey[px] # 0})

(* The two asserts on a circle, lines 440-446 and 464-470: the counts sum  *)
(* to count_nonzero, and the fractions counts / count_nonzero sum to 1.    *)
CircleAssertsHold(grey, disk) ==
    LET counts  == CircleCounts(grey, disk)
        nonzero == CountNonzero(grey, disk)
    IN  /\ ArraySum(counts) = nonzero
        /\ nonzero # 0

calculate_OD ==
    /\ circle_outcome = "not_called"
    /\ brightness_counts_min' = CircleCounts(circle_grey, Disk(ind_min, disk_radius))
    /\ IF ~CircleAssertsHold(circle_grey, Disk(ind_min, disk_radius))
       THEN /\ circle_outcome' = "AssertionError"
            /\ UNCHANGED brightness_counts_max
       ELSE /\ brightness_counts_max' =
                   CircleCounts(circle_grey, Disk(ind_max, disk_radius))
            /\ circle_outcome' =
                   IF CircleAssertsHold(circle_grey, Disk(ind_max, disk_radius))
                   THEN "done" ELSE "AssertionError"
    /\ UNCHANGED <<circle_grey, disk_radius, ind_min, ind_max>>
    /\ UNCHANGED <<oldVars, orientVars, statVars, evalVars, growVars>>

InitCircle ==
    /\ IdleOld
    /\ IdleOrient
    /\ IdleStat
    /\ IdleEval
    /\ IdleGrow
    /\ circle_grey \in [Pixels -> brightness_array]
    /\ disk_radius \in 1..MaxRadius
    /\ ind_min \in Pixels
    /\ ind_max \in Pixels
    /\ brightness_counts_min = <<>>
    /\ brightness_counts_max = <<>>
    /\ circle_outcome = "not_called"

NextCircle == calculate_OD

SpecCircle == InitCircle /\ [][NextCircle]_vars

----------------------------------------------------------------------------
(* Properties of the calibration inversion. *)

Called == od_outcome # "not_called"
TableLen == Len(calibration_density)
M(i) == Measured(calibration_density, i)
P(i) == Physical(calibration_density, i)

StrictlyDescendingMeasured ==
    \A i \in 1..(TableLen - 1) : M(i) > M(i + 1)
AscendingPhysical ==
    \A i \in 1..(TableLen - 1) : P(i) <= P(i + 1)
StrictlyAscendingPhysical ==
    \A i \in 1..(TableLen - 1) : P(i) < P(i + 1)

(* C1: a call of convert_OD with a value above the measured value of the   *)
(* first table point or below the measured value of the last one returns   *)
(* None: it neither raises nor returns a density.                          *)
C1_OutOfRangeReturnsNone ==
    (Called /\ (weighted_mean > M(1) \/ weighted_mean < M(TableLen)))
        => (od_outcome = "None" /\ optical_density = NoValue)

C1_Witness ==
    /\ od_outcome = "None"
    /\ StrictlyDescendingMeasured
    /\ weighted_mean < M(TableLen)

(* The value is within one half thousandth of the straight line through    *)
(* the points i and i+1 of the table.                                      *)
OnLineRounded(i) ==
    LET den == M(i) - M(i + 1)
        num == P(i) * den + (M(i) - weighted_mean) * (P(i + 1) - P(i))
        dev == optical_density * den - num
    IN  2 * dev <= den /\ 2 * (0 - dev) <= den

(* C2 as stated: for a table with descending measured and ascending        *)
(* physical values and v strictly between two adjacent measured values,    *)
(* the result is strictly between the two physical values and linear in v. *)
C2_StrictlyBetween ==
    (Called /\ StrictlyDescendingMeasured /\ StrictlyAscendingPhysical)
        => \A i \in 1..(TableLen - 1) :
              (M(i) > weighted_mean /\ weighted_mean > M(i + 1))
                  => /\ od_outcome = "value"
                     /\ P(i) < optical_density
                     /\ optical_density < P(i + 1)
                     /\ OnLineRounded(i)

(* C2 amended: under the same conditions (measured values strictly         *)
(* descending) the result is the linear interpolation rounded to 3         *)
(* decimals; it lies between the two physical values, ends included.       *)
C2_BetweenInclusive ==
    /\ (Called /\ StrictlyDescendingMeasured /\ AscendingPhysical)
        => \A i \in 1..(TableLen - 1) :
              (M(i) > weighted_mean /\ weighted_mean > M(i + 1))
                  => /\ od_outcome = "value"
                     /\ P(i) <= optical_density
                     /\ optical_density <= P(i + 1)
                     /\ OnLineRounded(i)
    /\ convert_OD(<<<<100, 3800>>, <<0, 5800>>>>, 50) = {Returned(4800, 1, 2)}

C2_Witness ==
    /\ od_outcome = "value"
    /\ StrictlyDescendingMeasured
    /\ StrictlyAscendingPhysical
    /\ index_above = 1 /\ index_below = 2
    /\ M(1) > weighted_mean /\ weighted_mean > M(2)
    /\ P(1) < optical_density /\ optical_density < P(2)

(* C3: for a table with strictly descending measured values, convert_OD of *)
(* the measured value of any table point, the first and the last included, *)
(* returns the physical value of that point.                               *)
C3_ExactAtTablePoints ==
    /\ (Called /\ StrictlyDescendingMeasured)
        => \A i \in 1..TableLen :
              weighted_mean = M(i)
                  => (od_outcome = "value" /\ optical_density = P(i))
    /\ convert_OD(<<<<255, 0>>, <<100, 3800>>, <<2, 5700>>>>, 100)
           = {Returned(3800, 0, 0)}

C3_Witness ==
    /\ od_outcome = "value"
    /\ StrictlyDescendingMeasured
    /\ TableLen = 3
    /\ weighted_mean = M(TableLen)
    /\ optical_density = P(TableLen)
    /\ P(TableLen) # P(1) /\ P(TableLen) # P(2)

(* C4: when the indices found for the nearest point above and the nearest  *)
(* point below v are not adjacent, the call raises and returns no density; *)
(* a returned interpolated density always comes from two adjacent points   *)
(* that enclose v.                                                         *)
C4_NonAdjacentRaises ==
    /\ (Called /\ index_above # 0 /\ index_above # index_below - 1)
        => (od_outcome = "AssertionError" /\ optical_density = NoValue)
    /\ (od_outcome = "value" /\ \A i \in 1..TableLen : M(i) # weighted_mean)
        => /\ index_above = index_below - 1
           /\ M(index_above) > weighted_mean
           /\ weighted_mean > M(index_below)
           /\ \A i \in 1..TableLen :
                  \/ M(i) >= M(index_above)
                  \/ M(i) <= M(index_below)

C4_Witness ==
    /\ od_outcome = "AssertionError"
    /\ index_above = 1
    /\ index_below = 3
    /\ M(1) > weighted_mean /\ weighted_mean > M(3) /\ M(3) > M(2)

----------------------------------------------------------------------------
(* Properties of the brightness histogram. *)

MaskedPixels == {px \in DOMAIN grey_photo : cropped_mask[px]}

(* C5: after create_brightness_arrays the counts sum to the number of      *)
(* masked pixels, the cumulative counts never decrease and the last one is *)
(* the number of masked pixels; the call completes for every photo and     *)
(* every mask with a masked pixel.                                         *)
C5_HistogramInvariant ==
    /\ hist_outcome = "done"
        => /\ ArraySum(brightness_counts) = Cardinality(MaskedPixels)
           /\ \A i \in brightness_array :
                 brightness_counts[i]
                     = Cardinality({px \in MaskedPixels : grey_photo[px] = i})
           /\ \A i \in 1..MaxBrightness :
                 brightness_cumulative[i - 1] <= brightness_cumulative[i]
           /\ brightness_cumulative[MaxBrightness] = Cardinality(MaskedPixels)
    /\ hist_outcome = "AssertionError" => MaskedPixels = {}

C5_Witness ==
    /\ hist_outcome = "done"
    /\ Cardinality(MaskedPixels) = 2
    /\ Cardinality(MaskedPixels) < Cardinality(DOMAIN grey_photo)
    /\ brightness_counts[0] = 1
    /\ brightness_counts[MaxBrightness] = 1
    /\ \E px \in DOMAIN grey_photo : ~cropped_mask[px] /\ grey_photo[px] = 0

----------------------------------------------------------------------------
(* Properties of the pinhole detector. *)

(* The k-th smallest of the configured breakpoints. *)
Breakpoint(k) ==
    LET S == {PINHOLE_CLASS_STEPS[i] : i \in DOMAIN PINHOLE_CLASS_STEPS}
    IN  CHOOSE x \in S : Cardinality({y \in S : y < x}) = k - 1

(* The pixels of the region with label l. *)
Region(l) == {px \in Grid : labels_holes[px] = l}

(* C6: every record gets the one category in 1..5 that the diameter d of   *)
(* its region has among the ascending breakpoints s0 < s1 < s2 < s3:       *)
(* 1 iff d < s0, 2 iff s0 <= d < s1, 3 iff s1 <= d < s2, 4 iff             *)
(* s2 <= d < s3, 5 iff d >= s3; with [50,100,150,350], 49 is in category   *)
(* 1, 50 in category 2 and 350 in category 5.                              *)
C6_CategoryPartition ==
    /\ pin_pc = "extracted"
        => \A k \in DOMAIN details :
             LET d   == conv_pixel_diameter(Cardinality(Region(k)))
                 cat == details[k].category
                 s0  == Breakpoint(1) * MicroPerUnit
                 s1  == Breakpoint(2) * MicroPerUnit
                 s2  == Breakpoint(3) * MicroPerUnit
                 s3  == Breakpoint(4) * MicroPerUnit
             IN  /\ cat \in 1..5
                 /\ cat = 1 <=> d < s0
                 /\ cat = 2 <=> (s0 <= d /\ d < s1)
                 /\ cat = 3 <=> (s1 <= d /\ d < s2)
                 /\ cat = 4 <=> (s2 <= d /\ d < s3)
                 /\ cat = 5 <=> d >= s3
    /\ Category(49 * MicroPerUnit, <<50, 100, 150, 350>>) = 1
    /\ Category(50 * MicroPerUnit, <<50, 100, 150, 350>>) = 2
    /\ Category(350 * MicroPerUnit, <<50, 100, 150, 350>>) = 5

C6_Witness ==
    /\ pin_pc = "extracted"
    /\ PINHOLE_CLASS_STEPS = <<12, 6, 15, 9>>
    /\ \E k \in DOMAIN details : details[k].category = 3

(* C7: extract_pinhole_details emits one record per region of the label    *)
(* image, numbered 1..N in the order of the labels, and N is the           *)
(* no_pinholes of label_holes, the number of regions of the holes image.   *)
C7_OneRecordPerRegion ==
    /\ pin_pc \in {"labeled", "extracted"}
        => /\ no_pinholes = Cardinality(Components(holes, 2))
           /\ \A l \in 1..no_pinholes : Region(l) \in Components(holes, 2)
    /\ pin_pc = "extracted"
        => /\ Len(details) = no_pinholes
           /\ \A k \in 1..Len(details) :
                 /\ details[k].number = k
                 /\ details[k].area = Cardinality(Region(k))
                 /\ \A j \in 1..(k - 1) :
                       RasterBefore(FirstPixel(Region(j)), FirstPixel(Region(k)))

C7_Witness ==
    /\ pin_pc = "extracted"
    /\ no_pinholes = 2
    /\ Len(details) = 2
    /\ details[1].number = 1
    /\ details[2].number = 2

(* C8: after big_holes every candidate that is left has at least           *)
(* minimum_size pixels, and so has every region of a defect record.        *)
C8_OnlyBigHolesSurvive ==
    /\ pin_pc \in {"holes", "labeled", "extracted"}
        => \A c \in Components(holes, 1) : Cardinality(c) >= MinimumSize
    /\ pin_pc = "extracted"
        => \A k \in DOMAIN details :
              /\ details[k].area >= MinimumSize
              /\ Cardinality(Region(k)) >= MinimumSize

C8_Witness ==
    /\ pin_pc = "extracted"
    /\ \E k \in DOMAIN details : details[k].area = MinimumSize
    /\ binarized_photo \ holes # {}

(* C9 as stated: a pixel of a detected defect is included by the mask and  *)
(* its grayscale value is below the threshold.                             *)
C9_DefectsDarkInMask ==
    pin_pc = "extracted"
        => \A px \in Grid :
              labels_holes[px] > 0
                  => (px \in pinholer_mask /\ gray_photo[px] < threshold)

(* C9 amended: a pixel of a detected defect is included by the mask and    *)
(* its grayscale value is above the threshold.                             *)
C9_DefectsBrightInMask ==
    /\ pin_pc \in {"holes", "labeled", "extracted"}
        => \A px \in holes :
              px \in pinholer_mask /\ gray_photo[px] > threshold
    /\ pin_pc = "extracted"
        => \A px \in Grid :
              labels_holes[px] > 0
                  => (px \in pinholer_mask /\ gray_photo[px] > threshold)

C9_Witness ==
    /\ pin_pc = "extracted"
    /\ Len(details) = 1
    /\ \E px \in Grid : px \notin pinholer_mask /\ gray_photo[px] > threshold
    /\ \E px \in pinholer_mask : gray_photo[px] = threshold

----------------------------------------------------------------------------
(* Properties of the cropping step. *)

ValidMargin ==
    autocrop_margin >= 0 /\ 2 * autocrop_margin <= Min(CropRows, CropCols)

(* C10: for a mask with a nonzero pixel and a margin between 0 and half    *)
(* the smaller side, autocrop succeeds, cropped_mask has every nonzero     *)
(* pixel of the mask, and the cropped height and width are those of the    *)
(* patch plus twice the margin.                                            *)
C10_CropKeepsPatch ==
    (crop_outcome # "ready" /\ photo_mask # {} /\ ValidMargin)
        => /\ crop_outcome = "cropped"
           /\ photo_mask \subseteq photo_cropped_mask
           /\ Cardinality(kept_rows) = height_patch + 2 * autocrop_margin
           /\ Cardinality(kept_cols) = width_patch + 2 * autocrop_margin

----------------------------------------------------------------------------
(* Properties of the batch loop. *)

IsAttempt(entry) == entry.event \in {"completed", "error"}

(* The log entries that the passes of the loop body wrote, in order. *)
Attempts == SelectSeq(batch_log, IsAttempt)

(* Every file taken so far was attempted once, in list order, and the      *)
(* entry of a file is an error exactly when its pipeline raised.           *)
AttemptedInOrder ==
    /\ file_index <= Len(file_list)
    /\ Len(Attempts) = file_index
    /\ \A i \in 1..Len(Attempts) :
          /\ Attempts[i].file = i
          /\ (Attempts[i].event = "error") = file_list[i].raises

(* At the end every file has been taken, the bar is finished and "DONE."   *)
(* is the last entry of the log.                                           *)
EndReached ==
    batch_pc = "done"
        => /\ file_index = Len(file_list)
           /\ pbar = "finished"
           /\ batch_log[Len(batch_log)].event = "DONE"

ExportAlone(p) == export_csv(RunPipeline(InitialResults, p))

----------------------------------------------------------------------------
(* Properties of the exposure-time checks. *)

PhotoExposureDiffers ==
    /\ results_ExposureTime # calibration_pinholes_exposure_time
    /\ results_ExposureTime # calibration_density_exposure_time

(* C13: when the calibration's exposure time differs from the photo's      *)
(* recorded exposure time, the first constructor that runs fails, and      *)
(* nothing is computed or recorded by the detector or the evaluator: no    *)
(* histogram, statistic, optical density, binarization, labeling or defect *)
(* record; the analysis of the photo never completes.                      *)
C13_MismatchStopsBeforeComputation ==
    PhotoExposureDiffers
        => /\ computed = {}
           /\ defect_records = 0
           /\ evaluated_od = NoValue
           /\ \A i \in 1..Len(calib_recorded) :
                 calib_recorded[i] \notin
                     {EvaluatorResults[j] : j \in 1..Len(EvaluatorResults)}
           /\ calib_pc \in {"photo_done", "aborted", "ended"}
           /\ calib_pc = "aborted"
                 => calib_outcome \in {"AttributeError", "Exception"}
           /\ calib_pc = "ended" => (~use_pinholes /\ ~analyze_brightness)

C13_Witness ==
    /\ PhotoExposureDiffers
    /\ calib_pc = "aborted"
    /\ analyze_brightness
    /\ ~use_pinholes
    /\ calib_outcome = "Exception"

----------------------------------------------------------------------------
(* Properties of the preparation of the photo. *)

AddMaskReturned == prep_pc \in {"masked", "flipped", "oriented", "rotated"}

AddMaskRaised == prep_pc = "aborted" /\ prep_outcome \in {"ValueError", "NameError"}

AddMaskCalled == prep_pc # "photo_loaded"

(* C14: automask fails, before it computes a mask, for every grow outside  *)
(* [0.5, 1.0), below 0.5 as well as from 1.0 on, and accepts every grow    *)
(* from 0.5 to below 1.0.                                                  *)
C14_GrowOutsideRangeFails ==
    (AddMaskCalled /\ setting_automask)
        => IF automask_grow >= 50 /\ automask_grow < 100
           THEN AddMaskReturned \/ prep_outcome = "Exception"
           ELSE AddMaskRaised /\ mask_shape = <<>> /\ thresh_value = NoValue

(* C17: with a mask file, mask_file fails whenever the mask's height or    *)
(* its width differs from the photo's, and accepts the mask only when both *)
(* are equal.                                                              *)
C17_MaskSizeMismatchFails ==
    (AddMaskCalled /\ ~setting_automask)
        => IF mask_file_shape = photo_shape
           THEN AddMaskReturned \/ prep_outcome = "Exception"
           ELSE AddMaskRaised

(* C18: with automask and a caller's threshold outside 0..254, add_mask    *)
(* fails and no mask is produced.                                          *)
C18_ThresholdOutsideRangeFails ==
    (AddMaskCalled /\ setting_automask
        /\ (binarize_threshold < 0 \/ binarize_threshold > 254))
        => AddMaskRaised /\ mask_shape = <<>>

(* C20: the rotations applied to the mask are those applied to the photo,  *)
(* angle by angle, and after any flip and rotate steps the mask has the    *)
(* photo's height and width.                                               *)
C20_RotationSynchronized ==
    /\ mask_angles = photo_angles
    /\ (prep_pc \in {"flipped", "oriented", "rotated"} /\ Len(mask_angles) > 0)
          => mask_shape = photo_shape

----------------------------------------------------------------------------
(* Further properties of the cropping step. *)

CropPhotoCalled == crop_outcome # "ready" /\ photo_mask # {}

CropPhotoFailed ==
    /\ crop_outcome \in {"ValueError", "NameError"}
    /\ kept_rows = {}
    /\ kept_cols = {}
    /\ photo_cropped_mask = {}

(* The rows and columns that the requested cut removes. *)
RowsToRemove ==
    (crop_edges[1] - autocrop_margin) + (crop_edges[2] - autocrop_margin)

ColsToRemove ==
    (crop_edges[3] - autocrop_margin) + (crop_edges[4] - autocrop_margin)

(* C15: crop_photo fails with an error, and nothing is cropped, for every  *)
(* margin that is negative or greater than half the smaller side.          *)
C15_InvalidMarginFails ==
    (CropPhotoCalled /\ ~ValidMargin) => CropPhotoFailed

C15_Witness ==
    /\ CropPhotoCalled
    /\ 2 * autocrop_margin > Min(CropRows, CropCols)
    /\ crop_outcome = "NameError"

(* C19: crop_photo fails with an error, and returns no image, whenever the *)
(* rows to remove, (top - margin) + (bottom - margin), are at least the    *)
(* photo's height, or the columns to remove are at least its width.        *)
C19_ExcessiveCutFails ==
    (CropPhotoCalled /\ (RowsToRemove >= CropRows \/ ColsToRemove >= CropCols))
        => CropPhotoFailed

C19_Witness ==
    /\ CropPhotoCalled
    /\ RowsToRemove >= CropRows
    /\ ColsToRemove < CropCols
    /\ crop_outcome = "ValueError"

----------------------------------------------------------------------------
(* Further properties of the pinhole detector. *)

(* The configured breakpoints are exactly 4 distinct integers in ascending *)
(* order.                                                                  *)
FourAscending ==
    /\ Len(PINHOLE_CLASS_STEPS) = 4
    /\ \A i \in 1..3 : PINHOLE_CLASS_STEPS[i] < PINHOLE_CLASS_STEPS[i + 1]

(* C16: set_steps accepts the breakpoints only when they are exactly 4     *)
(* distinct integers in ascending order, and fails for every other         *)
(* configuration: fewer or more than 4 entries, repeated values, or values *)
(* not in ascending order.                                                 *)
C16_OnlyFourAscendingAccepted ==
    pin_pc # "constructed"
        => IF FourAscending THEN pin_pc # "ValueError" ELSE pin_pc = "ValueError"

----------------------------------------------------------------------------
(* Properties of the orientation of the patch. *)

MaskRegions == Components(orient_mask, 2)

LargestRegions ==
    {c \in MaskRegions : \A d \in MaskRegions : Cardinality(c) >= Cardinality(d)}

(* C21: when get_orientation has returned for a mask with several          *)
(* connected components (8-connectivity), the region whose moments give    *)
(* the orientation is a largest component of the mask.                     *)
C21_OrientationFromLargestRegion ==
    (orient_outcome = "returned" /\ Cardinality(MaskRegions) > 1)
        => measured_region \in LargestRegions

----------------------------------------------------------------------------
(* Properties of the distribution parameters. *)

(* The value an attribute of the results has in the end: that of the last  *)
(* add_result call with its name.                                          *)
StatValue(name) ==
    LET calls == {k \in DOMAIN stat_results : stat_results[k].variable = name}
        last  == CHOOSE k \in calls : \A j \in calls : j <= k
    IN  stat_results[last].value

(* C22: for each threshold X, at least X% of the masked pixels have a      *)
(* brightness greater than or equal to the value recorded as brightness_X. *)
C22_ShareAtLeastThisBright ==
    stat_outcome = "done"
        => \A k \in DOMAIN Thresholds :
               LET recorded == StatValue(Thresholds[k].name)[1]
                   brighter == {px \in MaskedPixels : grey_photo[px] >= recorded}
               IN  Cardinality(brighter) * 10000
                       >= Thresholds[k].percent * number_total_pixels

(* C28: within the analysis of one photo no name is recorded twice: the    *)
(* calls of add_result have pairwise different variable names.             *)
C28_OneWriterPerName ==
    \A j, k \in DOMAIN stat_results :
        stat_results[j].variable = stat_results[k].variable => j = k

(* C29: for every histogram with a masked pixel the method does not fail   *)
(* at the peak, ties of the maximal count included, and brightness_peak is *)
(* a bin with the maximal count.                                           *)
C29_PeakForEveryHistogram ==
    /\ stat_outcome # "TypeError"
    /\ stat_outcome = "done"
           => StatValue("brightness_peak")[1] \in PeakIndices(brightness_counts)

(* C30: with a masked pixel of nonzero brightness the order-2 weighted     *)
(* mean is at least the arithmetic mean, the dispersity is at least 1 and  *)
(* the order-3 weighted mean is at least the order-2 weighted mean.        *)
C30_WeightedMeansOrdered ==
    (stat_outcome = "done" /\ \E px \in MaskedPixels : grey_photo[px] > 0)
        => /\ StatValue("brightness_weighted_mean") # Nan
           /\ StatValue("brightness_2_weighted_mean") # Nan
           /\ StatValue("brightness_dispersity") # Nan
           /\ RatGeq(StatValue("brightness_weighted_mean"),
                     StatValue("brightness_mean"))
           /\ RatGeq(StatValue("brightness_dispersity"), Whole(1))
           /\ RatGeq(StatValue("brightness_2_weighted_mean"),
                     StatValue("brightness_weighted_mean"))

C30_Witness ==
    /\ stat_outcome = "done"
    /\ \E px, q \in MaskedPixels :
           grey_photo[px] > 0 /\ grey_photo[q] > grey_photo[px]
    /\ ~RatEq(StatValue("brightness_weighted_mean"), StatValue("brightness_mean"))
    /\ ~RatGeq(Whole(1), StatValue("brightness_dispersity"))

----------------------------------------------------------------------------
(* Properties of the cropping switch. *)

(* C23: with the setting autocrop False the evaluator works on the whole   *)
(* photo and the whole mask: no row and no column has been cut.            *)
C23_NoCropWhenSwitchedOff ==
    (~setting_autocrop /\ evaluator_pc = "initiated")
        => /\ evaluator_rows = RowIndices
           /\ evaluator_cols = ColIndices
           /\ evaluator_mask = photo_mask

----------------------------------------------------------------------------
(* Properties of the final binarization of automask. *)

----------------------------------------------------------------------------
(* Properties of the search of convert_OD on well-formed tables. *)

InsideTable == M(1) >= weighted_mean /\ weighted_mean >= M(TableLen)

OffTablePoints == \A i \in 1..TableLen : M(i) # weighted_mean

(* C25: on a table with strictly descending measured values, for an input  *)
(* within the table's range that equals no measured value, the search      *)
(* finds adjacent indices, the assertion does not fire and a density is    *)
(* returned.                                                               *)
C25_WellFormedTableNeverAsserts ==
    (Called /\ StrictlyDescendingMeasured /\ InsideTable /\ OffTablePoints)
        => /\ od_outcome = "value"
           /\ optical_density # NoValue
           /\ index_above >= 1
           /\ index_below = index_above + 1

C25_Witness ==
    /\ Called
    /\ StrictlyDescendingMeasured
    /\ TableLen = 3
    /\ OffTablePoints
    /\ M(2) > weighted_mean /\ weighted_mean > M(3)
    /\ od_outcome = "value"
    /\ index_above = 2

----------------------------------------------------------------------------
(* Properties of the removal of small regions. *)

(* C26: every region of the binarized photo under the connectivity of the  *)
(* labeling (8 neighbours) with at least minimum_size pixels keeps all its *)
(* pixels in big_holes and is the region of a defect record.               *)
C26_LabelRegionsOfMinimumSizeReported ==
    pin_pc = "extracted"
        => \A c \in Components(binarized_photo, 2) :
               Cardinality(c) >= MinimumSize
                   => /\ c \subseteq holes
                      /\ \E k \in DOMAIN details : c \subseteq Region(k)

----------------------------------------------------------------------------
(* Properties of the circles of calculate_OD. *)

(* C27: calculate_OD never stops on one of its own assertions, whatever    *)
(* the brightness of the pixels (0 included) and the centres of the        *)
(* circles, and the counts of each circle sum to its number of pixels.     *)
C27_CircleAssertionsHold ==
    /\ circle_outcome # "AssertionError"
    /\ circle_outcome = "done"
        => /\ ArraySum(brightness_counts_min)
                  = Cardinality(Disk(ind_min, disk_radius))
           /\ ArraySum(brightness_counts_max)
                  = Cardinality(Disk(ind_max, disk_radius))

====
